---- MODULE Spec2Model ----
(***************************************************************************)
(* optimize_ab of optimization.py: the quadratic 0/1 program that divides  *)
(* num_teams teams into num_groups groups of size [min_size, max_size],    *)
(* the call to the solver, and the decoding of the solver's values into    *)
(* teams_to_groups and total_distance_traveled.                            *)
(*                                                                         *)
(* One call of optimize_ab is one behaviour.  The arguments are chosen in  *)
(* Init; pc is the position inside the function body.                      *)
(***************************************************************************)
EXTENDS Integers, FiniteSets, Sequences, TLC

VARIABLES matrix, num_groups, min_size, max_size,
          pc, num_teams, g, status, X, optimized,
          teams_to_groups, total_distance_traveled

vars == <<matrix, num_groups, min_size, max_size, pc, num_teams, g, status, X, optimized,
          teams_to_groups, total_distance_traveled>>

args == <<matrix, num_groups, min_size, max_size>>

(***************************************************************************)
(* Bounds of the model.                                                    *)
(***************************************************************************)
\* largest number of teams (rows of the matrix)
MaxTeams == 3
\* largest num_groups
MaxGroups == 2
\* largest value of min_size and max_size
MaxSize == 2
\* largest sum of all the entries of a matrix; the entries are naturals
MaxTotalCost == 2

\* Python's None (min_size, max_size, the entries of teams_to_groups)
None == -1

(***************************************************************************)
(* Arithmetic helpers: sum of f[0] .. f[n-1].                              *)
(***************************************************************************)
RECURSIVE Sum(_, _)
Sum(f, n) == IF n = 0 THEN 0 ELSE f[n - 1] + Sum(f, n - 1)

(***************************************************************************)
(* The arguments.  A matrix of n teams is a function 0..n-1 -> 0..n-1 ->   *)
(* Nat with a zero diagonal (example_matrix: "distance to oneself is 0");  *)
(* it need not be symmetric.  The matrices are all those whose entries sum *)
(* to at most MaxTotalCost: each of MaxTotalCost units of cost is put on   *)
(* an ordered pair of distinct teams, or left out.                         *)
(***************************************************************************)
OffDiagonal(n) == {p \in (0 .. n - 1) \X (0 .. n - 1) : p[1] # p[2]}

Matrices(n) ==
    {[i \in 0 .. n - 1 |-> [j \in 0 .. n - 1 |->
          Cardinality({u \in 1 .. MaxTotalCost : place[u] = <<i, j>>})]] :
       place \in [1 .. MaxTotalCost -> OffDiagonal(n) \cup {<<>>}]}

Sizes == {None} \cup (0 .. MaxSize)

\* len(matrix)
Len0(m) == Cardinality(DOMAIN m)

Teams == 0 .. num_teams - 1
Groups == 0 .. num_groups - 1

Init ==
    /\ \E n \in 1 .. MaxTeams : matrix \in Matrices(n)
    /\ num_groups \in 1 .. MaxGroups
    /\ min_size \in Sizes
    /\ max_size \in Sizes
    /\ pc = "start"
    /\ num_teams = 0
    /\ g = {}
    /\ status = "unsolved"
    /\ X = <<>>
    /\ optimized = FALSE
    /\ teams_to_groups = <<>>
    /\ total_distance_traveled = 0

(***************************************************************************)
(* Lines 98-106: the binary variables g[i, j], one for every pair of       *)
(* 0..num_teams-1 (the inner loop runs over range(num_teams)).             *)
(***************************************************************************)
CreatedKeys(n) == (0 .. n - 1) \X (0 .. n - 1)

CreateVars ==
    /\ pc = "start"
    /\ num_teams' = Len0(matrix)
    /\ g' = CreatedKeys(Len0(matrix))
    /\ pc' = "vars"
    /\ UNCHANGED <<args, status, X, optimized, teams_to_groups, total_distance_traveled>>

(***************************************************************************)
(* Lines 108-138: the objective and the constraints.  The keys of g these  *)
(* lines look up: g[i, k] and g[j, k] for i < j and k < num_groups (line   *)
(* 116), g[i, j] for every team i and j < num_groups (lines 127, 134).  A  *)
(* key that was never created raises KeyError (a tupledict is a dict).     *)
(***************************************************************************)
ObjectiveKeys ==
    {<<t, k>> : t \in {i \in Teams : \E j \in Teams : i < j \/ j < i}, k \in Groups}

ConstraintKeys == Teams \X Groups

BuildModel ==
    /\ pc = "vars"
    /\ pc' = IF (ObjectiveKeys \cup ConstraintKeys) \subseteq g THEN "built" ELSE "KeyError"
    /\ UNCHANGED <<args, num_teams, g, status, X, optimized, teams_to_groups, total_distance_traveled>>

\* the way back is taken to cost what the way there costs
WeightOneWay(i, j) == 2 * matrix[i][j] + 2 * matrix[i][j]

\* line 119: 2 * matrix[i][j] + 2 * matrix[j][i]
Weight(i, j) == 2 * matrix[i][j] + 2 * matrix[j][i]

\* lines 114-116: su = sum over k of g[i, k] * g[j, k]
Together(x, i, j) == Sum([k \in Groups |-> x[i][k] * x[j][k]], num_groups)

\* lines 108-119: obj, the sum over i < j of (1 - su) * weight
Objective(x) ==
    Sum([i \in Teams |->
           Sum([j \in Teams |->
                  IF i >= j THEN 0 ELSE (1 - Together(x, i, j)) * Weight(i, j)],
               num_teams)],
        num_teams)

\* "su <= 1" in the place of "su == 1"
AtMostOneGroupConstr(row) == Sum(row, num_groups) <= 1

\* lines 124-128: exactly_one_group_i, on the variables of team i alone
OneGroupConstr(row) == Sum(row, num_groups) = 1

\* lines 131-138: the size of group j within [min_size, max_size]
GroupSize(x, j) == Sum([i \in Teams |-> x[i][j]], num_teams)

\* the min_size constraint left out
MaxSizeConstrsOnly(x) ==
    \A j \in Groups : (max_size # None) => GroupSize(x, j) <= max_size

SizeConstrs(x) ==
    \A j \in Groups :
        /\ (min_size # None) => GroupSize(x, j) >= min_size
        /\ (max_size # None) => GroupSize(x, j) <= max_size

(***************************************************************************)
(* Line 140: m.optimize().  The solver is exact: it ends with a 0/1 point  *)
(* that satisfies every constraint and whose objective no other such point *)
(* exceeds (line 121, GRB.MAXIMIZE), whichever of them it finds; or with   *)
(* no point at all when the constraints cannot be met.  The points are     *)
(* over the variables the model mentions (g[i, k], k < num_groups); the    *)
(* variables of no constraint are read by no later line.                   *)
(***************************************************************************)
Rows == {row \in [Groups -> {0, 1}] : OneGroupConstr(row)}

Feasible == {x \in [Teams -> Rows] : SizeConstrs(x)}

\* GRB.MINIMIZE in the place of GRB.MAXIMIZE
IsLeast(v, values) == \A w \in values : v <= w

\* line 121: GRB.MAXIMIZE
IsBest(v, values) == \A w \in values : w <= v

Optimal ==
    LET values == {Objective(x) : x \in Feasible}
        best == CHOOSE v \in values : IsBest(v, values)
    IN  {x \in Feasible : Objective(x) = best}

Optimize ==
    /\ pc = "built"
    /\ optimized' = TRUE
    /\ IF Feasible = {}
          THEN status' = "infeasible" /\ X' = <<>>
          ELSE status' = "optimal" /\ X' \in Optimal
    /\ pc' = "solved"
    /\ UNCHANGED <<args, num_teams, g, teams_to_groups, total_distance_traveled>>

(***************************************************************************)
(* Lines 142-158: the decoding.  g[i, k].X > 0.5 is 2 * X > 1.             *)
(***************************************************************************)
On(v) == 2 * v > 1

\* the assert of line 147 failed
Failed == -2

\* lines 145-148 for one team: k runs upwards, t is teams_to_groups[i]
RECURSIVE DecodeRow(_, _, _)
DecodeRow(row, k, t) ==
    IF k = num_groups THEN t
    ELSE IF On(row[k])
         THEN IF t # None THEN Failed ELSE DecodeRow(row, k + 1, k)
         ELSE DecodeRow(row, k + 1, t)

\* lines 142-148
Decode(x) == [i \in Teams |-> DecodeRow(x[i], 0, None)]

\* the factor of the way back left out
PairDistanceThere(i, j) == matrix[i][j] * 2 + matrix[j][i]

\* line 156
PairDistance(i, j) == matrix[i][j] * 2 + matrix[j][i] * 2

\* the inner loop over range(num_teams): every pair is met twice
TotalDistanceOrdered(x) ==
    Sum([i \in Teams |->
           Sum([j \in Teams |->
                  IF j = i THEN 0
                  ELSE Sum([k \in Groups |->
                              IF On(x[i][k]) /\ On(x[j][k])
                              THEN PairDistance(i, j) ELSE 0],
                           num_groups)],
               num_teams)],
        num_teams)

\* lines 150-156
TotalDistance(x) ==
    Sum([i \in Teams |->
           Sum([j \in Teams |->
                  IF j < i + 1 THEN 0
                  ELSE Sum([k \in Groups |->
                              IF On(x[i][k]) /\ On(x[j][k])
                              THEN PairDistance(i, j) ELSE 0],
                           num_groups)],
               num_teams)],
        num_teams)

Extract ==
    /\ pc = "solved"
    /\ IF status # "optimal"
          THEN \* no solution: g[0, 0].X raises (line 146)
               /\ pc' = "AttributeError"
               /\ UNCHANGED <<teams_to_groups, total_distance_traveled>>
          ELSE IF \E i \in Teams : Decode(X)[i] = Failed
                  THEN /\ pc' = "AssertionError"
                       /\ UNCHANGED <<teams_to_groups, total_distance_traveled>>
                  ELSE /\ pc' = "done"
                       /\ teams_to_groups' = Decode(X)
                       /\ total_distance_traveled' = TotalDistance(X)
    /\ UNCHANGED <<args, num_teams, g, status, X, optimized>>

Next == CreateVars \/ BuildModel \/ Optimize \/ Extract

Spec == Init /\ [][Next]_vars

(***************************************************************************)
(* The same call with a solver that may hand back any 0/1 values, not only *)
(* a point that meets the constraints: what lines 142-158 do with them.    *)
(***************************************************************************)
RawPoints == [Teams -> [Groups -> {0, 1}]]

OptimizeRaw ==
    /\ pc = "built"
    /\ optimized' = TRUE
    /\ status' = "optimal"
    /\ X' \in RawPoints
    /\ pc' = "solved"
    /\ UNCHANGED <<args, num_teams, g, teams_to_groups, total_distance_traveled>>

NextRaw == CreateVars \/ BuildModel \/ OptimizeRaw \/ Extract

SpecRaw == Init /\ [][NextRaw]_vars

(***************************************************************************)
(* What the claims compare the call's result with: the assignments of the  *)
(* teams to the groups, counted and priced directly.                       *)
(***************************************************************************)
Assignments == [Teams -> Groups]

Members(a, k) == {i \in Teams : a[i] = k}

ValidPartition(a) ==
    \A k \in Groups :
        /\ (min_size # None) => Cardinality(Members(a, k)) >= min_size
        /\ (max_size # None) => Cardinality(Members(a, k)) <= max_size

RECURSIVE SumPairs(_, _)
SumPairs(pairs, cost) ==
    IF pairs = {} THEN 0
    ELSE LET p == CHOOSE q \in pairs : TRUE
         IN  cost[p] + SumPairs(pairs \ {p}, cost)

AllPairs == {p \in Teams \X Teams : p[1] < p[2]}

RoundTrips == [p \in AllPairs |-> 2 * matrix[p[1]][p[2]] + 2 * matrix[p[2]][p[1]]]

\* the cost of the pairs that a puts into one group
BruteCost(a) == SumPairs({p \in AllPairs : a[p[1]] = a[p[2]]}, RoundTrips)

\* the cost of all the pairs
AllPairsCost == SumPairs(AllPairs, RoundTrips)

\* the 0/1 point of an assignment
PointOf(a) == [i \in Teams |-> [k \in Groups |-> IF a[i] = k THEN 1 ELSE 0]]

\* the size bounds cannot be met by len(matrix) teams in num_groups groups
InfeasibleSpec ==
    \/ min_size # None /\ num_groups * min_size > Len0(matrix)
    \/ max_size # None /\ Len0(matrix) > num_groups * max_size
    \/ min_size # None /\ max_size # None /\ min_size > max_size

(***************************************************************************)
(* C1: in the assignment optimize_ab returns, every team 0..num_teams-1    *)
(* has exactly one group k in 0..num_groups-1: none is left None.          *)
(***************************************************************************)
C1_ExactlyOneGroup ==
    pc = "done" =>
        /\ DOMAIN teams_to_groups = Teams
        /\ \A i \in Teams :
              Cardinality({k \in Groups : teams_to_groups[i] = k}) = 1

C1_Witness ==
    /\ pc = "done"
    /\ num_teams = 3
    /\ num_groups = 2
    /\ \A k \in Groups : \E i \in Teams : teams_to_groups[i] = k

(***************************************************************************)
(* C2: in every returned result each group has at least min_size teams     *)
(* when min_size is set and at most max_size teams when max_size is set.   *)
(***************************************************************************)
C2_GroupSizesInRange ==
    pc = "done" =>
        \A k \in Groups :
            LET size == Cardinality({i \in Teams : teams_to_groups[i] = k})
            IN  /\ (min_size # None) => size >= min_size
                /\ (max_size # None) => size <= max_size

C2_Witness ==
    /\ pc = "done"
    /\ num_teams = 3
    /\ num_groups = 2
    /\ min_size = 1
    /\ max_size = 2

(***************************************************************************)
(* C3: the returned total equals the recomputation over the returned       *)
(* assignment: each pair i < j of one group counted once with              *)
(* 2*cost[i][j] + 2*cost[j][i], the pairs of different groups not at all.  *)
(***************************************************************************)
C3_TotalIsBruteForce ==
    pc = "done" => total_distance_traveled = BruteCost(teams_to_groups)

C3_Witness ==
    /\ pc = "done"
    /\ num_teams = 3
    /\ \E p \in AllPairs :
          teams_to_groups[p[1]] # teams_to_groups[p[2]] /\ RoundTrips[p] > 0
    /\ \E p \in AllPairs : teams_to_groups[p[1]] = teams_to_groups[p[2]]

(***************************************************************************)
(* C4: with an optimal solve the returned total is at most the cost of     *)
(* every assignment of the teams to the groups that respects the sizes.    *)
(***************************************************************************)
C4_GloballyOptimal ==
    (pc = "done" /\ status = "optimal") =>
        \A a \in Assignments :
            ValidPartition(a) => total_distance_traveled <= BruteCost(a)

C4_Witness ==
    /\ pc = "done"
    /\ status = "optimal"
    /\ num_teams = 3
    /\ num_groups = 2
    /\ \E a \in Assignments :
          ValidPartition(a) /\ BruteCost(a) > total_distance_traveled

(***************************************************************************)
(* C5: a spec whose size bounds cannot be met never reaches the solver.    *)
(***************************************************************************)
C5_InfeasibleNeverSolved == InfeasibleSpec => ~optimized

(***************************************************************************)
(* C6: no result is returned in which some team has no group, or more than *)
(* one group, above the 0.5 threshold.                                     *)
(***************************************************************************)
C6_AmbiguousNeverReturned ==
    pc = "done" =>
        \A i \in Teams : Cardinality({k \in Groups : On(X[i][k])}) = 1

(***************************************************************************)
(* C7: no result is returned whose decoded groups are smaller than         *)
(* min_size or larger than max_size, whatever values the solver gave       *)
(* (stated here for the specs whose bounds can be met).                    *)
(***************************************************************************)
C7_ViolationNeverReturned ==
    ~ /\ pc = "done"
      /\ ~InfeasibleSpec
      /\ \E k \in Groups :
            \/ min_size # None /\ Cardinality(Members(teams_to_groups, k)) < min_size
            \/ max_size # None /\ Cardinality(Members(teams_to_groups, k)) > max_size

(***************************************************************************)
(* C8: with num_groups = 1 the returned total is the sum over all pairs    *)
(* i < j of 2*(cost[i][j] + cost[j][i]), symmetric matrix or not.          *)
(***************************************************************************)
C8_OneGroupTotal ==
    (pc = "done" /\ num_groups = 1) =>
        total_distance_traveled =
            SumPairs(AllPairs, [p \in AllPairs |->
                                  2 * (matrix[p[1]][p[2]] + matrix[p[2]][p[1]])])

C8_Witness ==
    /\ pc = "done"
    /\ num_groups = 1
    /\ num_teams = 3
    /\ \E p \in AllPairs : matrix[p[1]][p[2]] # matrix[p[2]][p[1]]

(***************************************************************************)
(* C9: for every 0/1 point with each team in exactly one group the         *)
(* objective (cost avoided) plus the recomputed total (cost incurred) is   *)
(* the cost of all pairs, so a point has the largest objective exactly     *)
(* when it has the least total; and so for the point the solver returned.  *)
(***************************************************************************)
C9_AvoidedPlusIncurred ==
    /\ pc = "built" =>
          LET values == {<<Objective(PointOf(a)), TotalDistance(PointOf(a))>> :
                            a \in Assignments}
              most == CHOOSE v \in values : \A w \in values : w[1] <= v[1]
              least == CHOOSE v \in values : \A w \in values : v[2] <= w[2]
          IN  \A v \in values :
                  /\ v[1] + v[2] = AllPairsCost
                  /\ v[1] = most[1] <=> v[2] = least[2]
    /\ pc = "done" => Objective(X) + total_distance_traveled = AllPairsCost

C9_Witness ==
    /\ pc = "done"
    /\ num_teams = 3
    /\ num_groups = 2
    /\ Objective(X) > 0

(***************************************************************************)
(* C10: every variable g[i, k], i < num_teams, k < num_groups, that the    *)
(* objective, the constraints and the decoding look up was created.        *)
(***************************************************************************)
C10_ReadKeysCreated ==
    pc # "start" => (Teams \X Groups) \subseteq g /\ pc # "KeyError"

====
